---- MODULE Spec2Model ----
(***************************************************************************)
(* Model of get_factors.py: the S&P 500 return-acquisition pipeline.       *)
(*                                                                         *)
(*   get_sp500_tickers  reads the Symbol column of a CSV file              *)
(*   get_stock_data_yf  Primary provider (yfinance), one fetch per ticker  *)
(*   get_stock_data_fmp Secondary provider (FMP), one fetch per ticker     *)
(*   main               Primary pass, fallback selection, Secondary pass,  *)
(*                      dict update and pd.DataFrame alignment             *)
(*                                                                         *)
(* Floats are modelled as exact rationals plus the IEEE specials NaN and   *)
(* +/-inf; dates are day ordinals.  The two remote services are            *)
(* environment: a service answers a given ticker the same way every time   *)
(* it is asked within one run (spec section 5: each fetch is idempotent),  *)
(* and the answer is chosen when the ticker is first asked for.            *)
(*                                                                         *)
(* The pandas release is environment too (the repository pins none), and   *)
(* two lines of each adapter depend on it:                                 *)
(*   Series.pct_change()      pandas < 3 : fill_method defaults to 'pad',  *)
(*                                         missing prices are forward      *)
(*                                         filled before dividing;         *)
(*                            pandas >= 3: no filling.                     *)
(*   df['Return'].replace(.., inplace=True)                                *)
(*                            pandas < 3 : acts on the cached column, the  *)
(*                                         frame is updated;               *)
(*                            pandas >= 3: copy-on-write, the chained      *)
(*                                         in-place call updates a         *)
(*                                         temporary and the frame keeps   *)
(*                                         its values.                     *)
(***************************************************************************)
EXTENDS Integers, Sequences, FiniteSets, TLC

VARIABLES
    pc,              \* position in main(): start, yf, select, fmp, update,
                     \* merge, done, exit (early return), crash (uncaught)
    csvSeen,         \* history: what pd.read_csv met (none before the read)
    pandas_version,  \* major release of the installed pandas: 2 or 3
    FMP_API_KEY,     \* truthiness of os.getenv('FMP_API_KEY')
    tickers,         \* main: tickers
    i,               \* loop position of the running adapter (1-based)
    stock_returns,   \* main: stock_returns (dict ticker -> Return series)
    failed_tickers,  \* main: failed_tickers
    fmp_returns,     \* main: fmp_returns / get_stock_data_fmp: all_stock_data
    returns_df,      \* main: returns_df; <<>> while the name is unbound
    yfService,       \* environment: what yfinance answers for each ticker
    fmpService,      \* environment: what FMP answers for each ticker
    yfCalls,         \* history: tickers yf.download was called with
    fmpCalls,        \* history: tickers requests.get was called with
    writes,          \* history: stores into the result mapping, per ticker
    delivered,       \* adapter harness: the raw observations of one response
    produced         \* adapter harness: <<>> or <<the Return series>>

vars == <<pc, csvSeen, pandas_version, FMP_API_KEY, tickers, i, stock_returns,
          failed_tickers, fmp_returns, returns_df, yfService, fmpService,
          yfCalls, fmpCalls, writes, delivered, produced>>

(***************************************************************************)
(* Bounds                                                                  *)
(***************************************************************************)
MaxRows == 2      \* rows of the Symbol column
MaxObs  == 2      \* observations in one provider response (pipeline)
MaxLen  == 3      \* observations in one provider response (adapter harness)
MaxDate == 3      \* distinct calendar days (merge harness)

Universe == {"A", "B"}
PandasVersions == {2, 3}

(***************************************************************************)
(* Floats                                                                  *)
(***************************************************************************)
NaN    == [kind |-> "nan",  n |-> 0, d |-> 1]
Inf    == [kind |-> "inf",  n |-> 0, d |-> 1]
NegInf == [kind |-> "ninf", n |-> 0, d |-> 1]

Abs(x) == IF x < 0 THEN -x ELSE x

RECURSIVE GCD(_, _)
GCD(a, b) == IF b = 0 THEN a ELSE GCD(b, a % b)

\* the rational n/d (d # 0) in lowest terms with a positive denominator
Rat(n, d) ==
    LET g == GCD(Abs(n), Abs(d))
        s == IF d < 0 THEN -1 ELSE 1
    IN  [kind |-> "num", n |-> (s * n) \div g, d |-> (s * d) \div g]

Num(v) == Rat(v, 1)

\* IEEE division of two prices (finite or NaN)
FloatDiv(a, b) ==
    IF a.kind # "num" \/ b.kind # "num" THEN NaN
    ELSE IF b.n = 0
         THEN IF a.n = 0 THEN NaN ELSE IF a.n > 0 THEN Inf ELSE NegInf
         ELSE Rat(a.n * b.d, a.d * b.n)

\* x - 1
FloatSub1(x) == IF x.kind = "num" THEN Rat(x.n - x.d, x.d) ELSE x

(***************************************************************************)
(* pandas                                                                  *)
(***************************************************************************)
\* Series.ffill(): a missing entry takes the last entry before it that is
\* present; leading missing entries stay missing
Ffill(s) ==
    LET f[k \in 0..Len(s)] ==
            IF k = 0 THEN NaN
            ELSE IF s[k].kind = "nan" THEN f[k - 1] ELSE s[k]
    IN  [k \in 1..Len(s) |-> f[k]]

\* Series.shift(1)
Shift(s) == [k \in 1..Len(s) |-> IF k = 1 THEN NaN ELSE s[k - 1]]

\* Series.pct_change() with its default arguments
pct_change(s, ver) ==
    LET data == IF ver < 3 THEN Ffill(s) ELSE s
        prev == Shift(data)
    IN  [k \in 1..Len(s) |-> FloatSub1(FloatDiv(data[k], prev[k]))]

\* Series.replace([np.inf, -np.inf], np.nan)
ReplaceInf(s) ==
    [k \in 1..Len(s) |-> IF s[k].kind \in {"inf", "ninf"} THEN NaN ELSE s[k]]

\* frame['Return'].replace([np.inf, -np.inf], np.nan, inplace=True) followed
\* by a read of frame['Return']
ChainedReplace(s, ver) == IF ver < 3 THEN ReplaceInf(s) ELSE s

\* the Return column of a frame whose rows are [date, price]
ReturnColumn(rows, ver) ==
    LET r == ChainedReplace(pct_change([k \in 1..Len(rows) |-> rows[k].price], ver), ver)
    IN  [k \in 1..Len(rows) |-> [date |-> rows[k].date, ret |-> r[k]]]

\* DataFrame.sort_index() on a date index
RECURSIVE SortIndex(_)
SortIndex(df) ==
    IF df = <<>> THEN <<>>
    ELSE LET last == df[Len(df)]
             rest == SortIndex(SubSeq(df, 1, Len(df) - 1))
             k    == Cardinality({j \in 1..Len(rest) : rest[j].date <= last.date})
         IN  SubSeq(rest, 1, k) \o <<last>> \o SubSeq(rest, k + 1, Len(rest))

\* a set of day ordinals as an ascending sequence
RECURSIVE Ascending(_)
Ascending(S) ==
    IF S = {} THEN <<>>
    ELSE LET m == CHOOSE x \in S : \A y \in S : x <= y
         IN  <<m>> \o Ascending(S \ {m})

Dates(series) == {series[k].date : k \in 1..Len(series)}

ValueAt(series, day) ==
    IF day \in Dates(series)
    THEN series[CHOOSE k \in 1..Len(series) : series[k].date = day].ret
    ELSE NaN

\* mutant of DataFrame: absent cells filled with zero
DataFrameZeroFilled(m) ==
    LET days == UNION {Dates(m[t]) : t \in DOMAIN m}
    IN  [index   |-> Ascending(days),
         columns |-> DOMAIN m,
         cell    |-> [t \in DOMAIN m |-> [day \in days |->
                        IF day \in Dates(m[t]) THEN ValueAt(m[t], day) ELSE Num(0)]]]

\* pd.DataFrame(dict of Series): outer join of the indexes
DataFrame(m) ==
    LET days == UNION {Dates(m[t]) : t \in DOMAIN m}
    IN  [index   |-> Ascending(days),
         columns |-> DOMAIN m,
         cell    |-> [t \in DOMAIN m |-> [day \in days |-> ValueAt(m[t], day)]]]

\* dict helpers
Put(dict, key, value) ==
    [k \in DOMAIN dict \cup {key} |-> IF k = key THEN value ELSE dict[k]]

\* mutant of DictUpdate: the update is lost
DictUpdateDropped(dict, other) == dict

\* dict.update(other)
DictUpdate(dict, other) ==
    [k \in DOMAIN dict \cup DOMAIN other |->
        IF k \in DOMAIN other THEN other[k] ELSE dict[k]]

(***************************************************************************)
(* get_sp500_tickers                                                       *)
(***************************************************************************)
StrCell(v) == [isstr |-> TRUE, v |-> v]
NanCell    == [isstr |-> FALSE, v |-> "nan"]     \* an empty cell reads as float NaN
Cells      == {StrCell(t) : t \in Universe} \cup {NanCell}

SeqsUpTo(S, n) == UNION {[1..k -> S] : k \in 0..n}

\* what pd.read_csv may meet: no such file, a file it cannot use (no Symbol
\* column, no columns at all, ...), or a table with a Symbol column
CsvFiles ==
    {[kind |-> "missing", Symbol |-> <<>>], [kind |-> "unreadable", Symbol |-> <<>>]}
    \cup {[kind |-> "table", Symbol |-> col] : col \in SeqsUpTo(Cells, MaxRows)}

IsStr(cell) == cell.isstr

\* the function's result: a returned list, or an exception other than
\* FileNotFoundError leaving the function
get_sp500_tickers(csv_file) ==
    IF csv_file.kind = "missing" THEN [raised |-> FALSE, value |-> <<>>]
    ELSE IF csv_file.kind = "unreadable" THEN [raised |-> TRUE, value |-> <<>>]
    ELSE [raised |-> FALSE,
          value  |-> LET strs == SelectSeq(csv_file.Symbol, IsStr)
                     IN  [k \in 1..Len(strs) |-> strs[k].v]]

(***************************************************************************)
(* The two services                                                        *)
(***************************************************************************)
QuotedPrices == {Num(100), Num(110)}

\* yf.download: raises, or returns a frame of date-ordered rows (maybe none)
YfFrames(n) ==
    {[k \in 1..n |-> [date |-> k, price |-> c[k]]] : c \in [1..n -> QuotedPrices]}
YfAnswers ==
    {[kind |-> "raised", rows |-> <<>>]}
    \cup {[kind |-> "frame", rows |-> r] : r \in UNION {YfFrames(n) : n \in 0..MaxObs}}

\* requests.get + raise_for_status + json.loads: raises, or yields a payload
\* without 'historical', or one whose 'historical' lists records of distinct
\* dates in whatever order the service delivers them
Orders(n) == {o \in [1..n -> 1..n] : \A a, b \in 1..n : o[a] = o[b] => a = b}
FmpQuote(day) == Num(100 - day)      \* the adjClose FMP reports for a day
FmpHistories(n) ==
    {[k \in 1..n |-> [date |-> o[k], price |-> FmpQuote(o[k])]] : o \in Orders(n)}
FmpAnswers ==
    {[kind |-> "raised", has |-> FALSE, historical |-> <<>>],
     [kind |-> "json",   has |-> FALSE, historical |-> <<>>]}
    \cup {[kind |-> "json", has |-> TRUE, historical |-> h] :
            h \in UNION {FmpHistories(n) : n \in 0..MaxObs}}

YfUnasked  == [kind |-> "unasked", rows |-> <<>>]
FmpUnasked == [kind |-> "unasked", has |-> FALSE, historical |-> <<>>]

(***************************************************************************)
(* get_stock_data_yf                                                       *)
(***************************************************************************)
\* mutant of YfOutcome: a series without any defined return counts as failure
YfOutcomeNeedsReturn(stock_data, ver) ==
    IF stock_data.kind = "raised" THEN <<>>
    ELSE IF stock_data.rows = <<>> THEN <<>>
    ELSE LET col == ReturnColumn(stock_data.rows, ver)
         IN  IF \E k \in 1..Len(col) : col[k].ret.kind = "num" THEN <<col>> ELSE <<>>

\* one pass of the loop body: <<>> when nothing is stored for the ticker,
\* <<series>> when all_stock_data[ticker] is assigned
YfOutcome(stock_data, ver) ==
    IF stock_data.kind = "raised" THEN <<>>                 \* except Exception
    ELSE IF stock_data.rows = <<>> THEN <<>>                \* stock_data.empty
    ELSE <<ReturnColumn(stock_data.rows, ver)>>

\* mutant of YfNext: the try/except wraps the loop, an exception ends it
YfNextAbort(k, stock_data) ==
    IF stock_data.kind = "raised" THEN Len(tickers) + 1 ELSE k + 1

\* the loop position after the pass at position k: the try/except is inside
\* the loop body, so the loop goes on whatever the pass met
YfNext(k, stock_data) == k + 1

(***************************************************************************)
(* get_stock_data_fmp                                                      *)
(***************************************************************************)
\* mutant of FmpOutcome: an empty 'historical' list yields an empty series
FmpOutcomeKeepsEmpty(data, ver) ==
    IF data.kind = "raised" THEN <<>>
    ELSE IF ~data.has THEN <<>>
    ELSE <<ReturnColumn(SortIndex(data.historical), ver)>>

\* mutant of FmpOutcome: df.sort_index is left out
FmpOutcomeUnsorted(data, ver) ==
    IF data.kind = "raised" THEN <<>>
    ELSE IF ~data.has THEN <<>>
    ELSE IF data.historical = <<>> THEN <<>>
    ELSE <<ReturnColumn(data.historical, ver)>>

\* one pass of the loop body, as YfOutcome
FmpOutcome(data, ver) ==
    IF data.kind = "raised" THEN <<>>                       \* except Exception
    ELSE IF ~data.has THEN <<>>                             \* no 'historical'
    ELSE IF data.historical = <<>> THEN <<>>                \* df['date']: KeyError
    ELSE <<ReturnColumn(SortIndex(data.historical), ver)>>

FmpNext(k, data) == k + 1

(***************************************************************************)
(* main                                                                    *)
(***************************************************************************)
Store(dict, key, outcome) == IF outcome = <<>> THEN dict ELSE Put(dict, key, outcome[1])

\* mutant of FailedTickers: every ticker is retried
FailedTickersAll(tks, returns) == tks

\* [ticker for ticker in tickers if ticker not in stock_returns]
FailedTickers(tks, returns) ==
    LET Missing(t) == t \notin DOMAIN returns
    IN  SelectSeq(tks, Missing)

\* if failed_tickers and FMP_API_KEY
UseFallback(failed, key) == failed # <<>> /\ key

harnessIdle == delivered = <<>> /\ produced = <<>>

Init ==
    /\ pc = "start"
    /\ csvSeen = "none"
    /\ pandas_version \in PandasVersions
    /\ FMP_API_KEY \in BOOLEAN
    /\ tickers = <<>>
    /\ i = 0
    /\ stock_returns = <<>>
    /\ failed_tickers = <<>>
    /\ fmp_returns = <<>>
    /\ returns_df = <<>>
    /\ yfService = [t \in Universe |-> YfUnasked]
    /\ fmpService = [t \in Universe |-> FmpUnasked]
    /\ yfCalls = <<>>
    /\ fmpCalls = <<>>
    /\ writes = [t \in Universe |-> 0]
    /\ harnessIdle

\* tickers = get_sp500_tickers(); if not tickers: return
LoadTickers ==
    /\ pc = "start"
    /\ \E csv_file \in CsvFiles :
         LET got == get_sp500_tickers(csv_file)
         IN  /\ csvSeen' = csv_file.kind
             /\ tickers' = got.value
             /\ pc' = IF got.raised THEN "crash"
                      ELSE IF got.value = <<>> THEN "exit"
                      ELSE "yf"
             /\ i' = IF ~got.raised /\ got.value # <<>> THEN 1 ELSE i
    /\ UNCHANGED <<pandas_version, FMP_API_KEY, stock_returns, failed_tickers,
                   fmp_returns, returns_df, yfService, fmpService, yfCalls,
                   fmpCalls, writes, delivered, produced>>

\* one pass of the loop of get_stock_data_yf(tickers, ...)
YfFetch ==
    /\ pc = "yf"
    /\ LET ticker == tickers[i]
       IN  \E stock_data \in (IF yfService[ticker] = YfUnasked
                              THEN YfAnswers ELSE {yfService[ticker]}) :
             LET outcome == YfOutcome(stock_data, pandas_version)
             IN  /\ yfService' = [yfService EXCEPT ![ticker] = stock_data]
                 /\ yfCalls' = Append(yfCalls, ticker)
                 /\ stock_returns' = Store(stock_returns, ticker, outcome)
                 /\ writes' = IF outcome = <<>> THEN writes
                              ELSE [writes EXCEPT ![ticker] = @ + 1]
                 /\ i' = YfNext(i, stock_data)
                 /\ pc' = IF i' > Len(tickers) THEN "select" ELSE "yf"
    /\ UNCHANGED <<csvSeen, pandas_version, FMP_API_KEY, tickers, failed_tickers,
                   fmp_returns, returns_df, fmpService, fmpCalls, delivered,
                   produced>>

\* failed_tickers = [...]; if failed_tickers and FMP_API_KEY: ... elif ...
Select ==
    /\ pc = "select"
    /\ failed_tickers' = FailedTickers(tickers, stock_returns)
    /\ IF UseFallback(failed_tickers', FMP_API_KEY)
       THEN pc' = "fmp" /\ i' = 1
       ELSE pc' = "merge" /\ i' = i
    /\ UNCHANGED <<csvSeen, pandas_version, FMP_API_KEY, tickers, stock_returns,
                   fmp_returns, returns_df, yfService, fmpService, yfCalls,
                   fmpCalls, writes, delivered, produced>>

\* one pass of the loop of get_stock_data_fmp(failed_tickers, ...)
FmpFetch ==
    /\ pc = "fmp"
    /\ LET ticker == failed_tickers[i]
       IN  \E data \in (IF fmpService[ticker] = FmpUnasked
                        THEN FmpAnswers ELSE {fmpService[ticker]}) :
             /\ fmpService' = [fmpService EXCEPT ![ticker] = data]
             /\ fmpCalls' = Append(fmpCalls, ticker)
             /\ fmp_returns' = Store(fmp_returns, ticker, FmpOutcome(data, pandas_version))
             /\ i' = FmpNext(i, data)
             /\ pc' = IF i' > Len(failed_tickers) THEN "update" ELSE "fmp"
    /\ UNCHANGED <<csvSeen, pandas_version, FMP_API_KEY, tickers, stock_returns,
                   failed_tickers, returns_df, yfService, yfCalls, writes,
                   delivered, produced>>

\* stock_returns.update(fmp_returns)
Update ==
    /\ pc = "update"
    /\ stock_returns' = DictUpdate(stock_returns, fmp_returns)
    /\ writes' = [t \in Universe |->
                    IF t \in DOMAIN fmp_returns THEN writes[t] + 1 ELSE writes[t]]
    /\ pc' = "merge"
    /\ UNCHANGED <<csvSeen, pandas_version, FMP_API_KEY, tickers, i, failed_tickers,
                   fmp_returns, returns_df, yfService, fmpService, yfCalls,
                   fmpCalls, delivered, produced>>

\* returns_df = pd.DataFrame(stock_returns)
Merge ==
    /\ pc = "merge"
    /\ returns_df' = <<DataFrame(stock_returns)>>
    /\ pc' = "done"
    /\ UNCHANGED <<csvSeen, pandas_version, FMP_API_KEY, tickers, i, stock_returns,
                   failed_tickers, fmp_returns, yfService, fmpService, yfCalls,
                   fmpCalls, writes, delivered, produced>>

Next == LoadTickers \/ YfFetch \/ Select \/ FmpFetch \/ Update \/ Merge

Spec == Init /\ [][Next]_vars

(***************************************************************************)
(* Adapter harness: one response, handed to either adapter's loop body.    *)
(* yfinance delivers its rows in date order; FMP delivers its records in   *)
(* any order and may deliver the same records again in another order.      *)
(***************************************************************************)
HarnessPrices == {NaN, Num(0), Num(100), Num(110)}

Injections(n, m) == {o \in [1..n -> 1..m] : \A a, b \in 1..n : o[a] = o[b] => a = b}

Deliveries ==
    UNION {{[k \in 1..n |-> [date |-> o[k], price |-> c[k]]] :
                o \in Injections(n, MaxLen), c \in [1..n -> HarnessPrices]} :
           n \in 1..MaxLen}

DateOrdered(rows) == \A k \in 1..(Len(rows) - 1) : rows[k].date < rows[k + 1].date

pipelineIdle ==
    /\ csvSeen = "none"
    /\ FMP_API_KEY = FALSE
    /\ tickers = <<>>
    /\ i = 0
    /\ failed_tickers = <<>>
    /\ fmp_returns = <<>>
    /\ returns_df = <<>>
    /\ yfService = [t \in Universe |-> YfUnasked]
    /\ fmpService = [t \in Universe |-> FmpUnasked]
    /\ yfCalls = <<>>
    /\ fmpCalls = <<>>
    /\ writes = [t \in Universe |-> 0]

pipelineVars ==
    <<csvSeen, pandas_version, FMP_API_KEY, tickers, i, stock_returns,
      failed_tickers, fmp_returns, returns_df, yfService, fmpService, yfCalls,
      fmpCalls, writes>>

InitAdapters ==
    /\ pc = "deliver"
    /\ pandas_version \in PandasVersions
    /\ delivered \in Deliveries
    /\ produced = <<>>
    /\ stock_returns = <<>>
    /\ pipelineIdle

YfAdapter ==
    /\ pc = "deliver"
    /\ DateOrdered(delivered)
    /\ produced' = YfOutcome([kind |-> "frame", rows |-> delivered], pandas_version)
    /\ pc' = "yf_done"
    /\ UNCHANGED <<delivered, pipelineVars>>

FmpAdapter ==
    /\ pc = "deliver"
    /\ produced' = FmpOutcome([kind |-> "json", has |-> TRUE, historical |-> delivered],
                              pandas_version)
    /\ pc' = "fmp_done"
    /\ UNCHANGED <<delivered, pipelineVars>>

Redeliver ==
    /\ pc = "fmp_done"
    /\ \E o \in Injections(Len(delivered), Len(delivered)) :
         /\ delivered' = [k \in 1..Len(delivered) |-> delivered[o[k]]]
         /\ delivered' # delivered
    /\ produced' = FmpOutcome([kind |-> "json", has |-> TRUE, historical |-> delivered'],
                              pandas_version)
    /\ pc' = "fmp_done"
    /\ UNCHANGED pipelineVars

NextAdapters == YfAdapter \/ FmpAdapter \/ Redeliver

SpecAdapters == InitAdapters /\ [][NextAdapters]_vars

(***************************************************************************)
(* Merge harness: main's last step on any mapping of tickers to date-      *)
(* ordered series.                                                         *)
(***************************************************************************)
SampleReturns == {NaN, Num(0), Rat(1, 10)}

SeriesOn(days) ==
    LET idx == Ascending(days)
    IN  {[k \in 1..Len(idx) |-> [date |-> idx[k], ret |-> r[k]]] :
            r \in [1..Len(idx) -> SampleReturns]}

AllSeries == UNION {SeriesOn(days) : days \in (SUBSET (1..MaxDate)) \ {{}}}

Mappings == UNION {[keys -> AllSeries] : keys \in SUBSET Universe}

InitMerge ==
    /\ pc = "merge"
    /\ pandas_version \in PandasVersions
    /\ stock_returns \in Mappings
    /\ pipelineIdle
    /\ harnessIdle

NextMerge == Merge

SpecMerge == InitMerge /\ [][NextMerge]_vars

(***************************************************************************)
(* Vocabulary of the properties                                            *)
(***************************************************************************)
Range(seq) == {seq[k] : k \in 1..Len(seq)}
Count(seq, x) == Cardinality({k \in 1..Len(seq) : seq[k] = x})

PastPrimary  == pc \in {"select", "fmp", "update", "merge", "done"}
PastSelect   == pc \in {"fmp", "update", "merge", "done"}
PastFallback == pc \in {"update", "merge", "done"}

\* what the services answered
PrimaryGaveData(t)  == yfService[t].kind = "frame" /\ yfService[t].rows # <<>>
PrimaryGaveEmpty(t) == yfService[t].kind = "frame" /\ yfService[t].rows = <<>>
PrimaryFailed(t)    == yfService[t].kind = "raised" \/ PrimaryGaveEmpty(t)
SecondaryGaveData(t) ==
    fmpService[t].kind = "json" /\ fmpService[t].has /\ fmpService[t].historical # <<>>
SecondaryGaveNothing(t) ==
    fmpService[t].kind = "json" /\ (~fmpService[t].has \/ fmpService[t].historical = <<>>)

PrimarySeries(t)   == ReturnColumn(yfService[t].rows, pandas_version)
SecondarySeries(t) == ReturnColumn(SortIndex(fmpService[t].historical), pandas_version)

\* column t of the table holds exactly the series: its values on its own
\* days, the missing-value marker on every other day of the index
ColumnIs(table, t, series) ==
    /\ t \in table.columns
    /\ \A k \in 1..Len(series) : table.cell[t][series[k].date] = series[k].ret
    /\ \A day \in Range(table.index) \ Dates(series) : table.cell[t][day] = NaN

Table == returns_df[1]

(***************************************************************************)
(* C1: a ticker Primary served keeps Primary's series to the end, as       *)
(* mapping entry and as table column, and is never asked of Secondary.     *)
(***************************************************************************)
C1_PrimaryWins ==
    \A t \in Universe :
        PrimaryGaveData(t) =>
            /\ t \in DOMAIN stock_returns
            /\ stock_returns[t] = PrimarySeries(t)
            /\ t \notin Range(fmpCalls)
            /\ pc = "done" => ColumnIs(Table, t, PrimarySeries(t))

C1_Witness ==
    /\ pc = "done"
    /\ FMP_API_KEY
    /\ tickers = <<"A", "B">>
    /\ PrimaryFailed("A") /\ SecondaryGaveData("A")
    /\ PrimaryGaveData("B") /\ Len(yfService["B"].rows) = 2
    /\ fmpCalls = <<"A">>
    /\ stock_returns["B"] = PrimarySeries("B")

(***************************************************************************)
(* C2: at the end of a run, a ticker Primary failed for holds Secondary's  *)
(* normalized series when the key is set and Secondary served it; it has   *)
(* no entry and no column when Secondary failed or when no key is set, and *)
(* without a key Secondary is never called.                                *)
(***************************************************************************)
C2_FallbackOutcome ==
    /\ ~FMP_API_KEY => fmpCalls = <<>>
    /\ pc = "done" =>
         \A t \in Range(tickers) :
            PrimaryFailed(t) =>
                IF FMP_API_KEY /\ SecondaryGaveData(t)
                THEN /\ t \in DOMAIN stock_returns
                     /\ stock_returns[t] = SecondarySeries(t)
                     /\ ColumnIs(Table, t, SecondarySeries(t))
                ELSE /\ t \notin DOMAIN stock_returns
                     /\ t \notin Table.columns
                     /\ FMP_API_KEY => t \in Range(fmpCalls)

C2_Witness ==
    /\ pc = "done"
    /\ FMP_API_KEY
    /\ tickers = <<"A", "B">>
    /\ PrimaryFailed("A") /\ PrimaryFailed("B")
    /\ SecondaryGaveData("A") /\ ~DateOrdered(fmpService["A"].historical)
    /\ fmpService["B"].kind = "raised"
    /\ DOMAIN stock_returns = {"A"}

(***************************************************************************)
(* C3: Primary is attempted for every ticker of the list, in order, and    *)
(* with a key Secondary is attempted for every ticker Primary failed for,  *)
(* whatever failed before.                                                 *)
(***************************************************************************)
C3_FaultIsolation ==
    /\ PastPrimary => yfCalls = tickers
    /\ (PastFallback /\ FMP_API_KEY) =>
          fmpCalls = SelectSeq(tickers, PrimaryFailed)

C3_Witness ==
    /\ pc = "done"
    /\ FMP_API_KEY
    /\ tickers = <<"A", "B">>
    /\ yfService["A"].kind = "raised" /\ PrimaryGaveEmpty("B")
    /\ fmpService["A"].kind = "raised" /\ SecondaryGaveData("B")
    /\ yfCalls = <<"A", "B">> /\ fmpCalls = <<"A", "B">>

(***************************************************************************)
(* C4: no run ends in an uncaught error and every run that ends has        *)
(* produced a table, whatever pd.read_csv met: a run whose ticker file was *)
(* not found, or could not be used, still ends with an (empty) table.      *)
(* (The early return on a readable file without any symbol is left out of  *)
(* the statement: it is not an error case.)                                *)
(***************************************************************************)
C4_AlwaysATable ==
    /\ pc # "crash"
    /\ pc = "done" => returns_df # <<>>
    /\ (pc = "exit" /\ csvSeen \in {"missing", "unreadable"}) => returns_df # <<>>

(***************************************************************************)
(* C7: each ticker's slot of the result mapping is written at most once    *)
(* and each provider is called at most once per ticker symbol.             *)
(***************************************************************************)
C7_ExclusiveWriter ==
    \A t \in Universe :
        /\ writes[t] <= 1
        /\ Count(yfCalls, t) <= 1
        /\ Count(fmpCalls, t) <= 1

(***************************************************************************)
(* C8: an empty Primary response leaves the ticker out of Primary's result *)
(* and puts it in failed_tickers; a Secondary payload with no records      *)
(* ('historical' absent or empty) leaves the ticker out of Secondary's     *)
(* result and out of the table, and the Secondary loop still visits every  *)
(* failed ticker.                                                          *)
(***************************************************************************)
C8_EmptyIsFailure ==
    \A t \in Universe :
        /\ PrimaryGaveEmpty(t) =>
              /\ pc \in {"yf", "select", "fmp", "update"} => t \notin DOMAIN stock_returns
              /\ PastSelect => t \in Range(failed_tickers)
        /\ SecondaryGaveNothing(t) =>
              /\ t \notin DOMAIN fmp_returns
              /\ t \notin DOMAIN stock_returns
              /\ PastFallback => fmpCalls = failed_tickers
              /\ pc = "done" => t \notin Table.columns

C8_Witness ==
    /\ pc = "done"
    /\ tickers = <<"A", "B">>
    /\ PrimaryGaveEmpty("A") /\ PrimaryGaveEmpty("B")
    /\ fmpService["A"].has /\ SecondaryGaveNothing("A")
    /\ SecondaryGaveData("B")
    /\ Table.columns = {"B"}

(***************************************************************************)
(* C10: a Primary response of a single price point counts as Success: the  *)
(* ticker is stored with a series of one missing value, is not in          *)
(* failed_tickers, is never asked of Secondary and is a column at the end. *)
(***************************************************************************)
C10_SinglePointIsSuccess ==
    \A t \in Universe :
        (yfService[t].kind = "frame" /\ Len(yfService[t].rows) = 1) =>
            /\ t \in DOMAIN stock_returns
            /\ stock_returns[t] = <<[date |-> yfService[t].rows[1].date, ret |-> NaN]>>
            /\ t \notin Range(failed_tickers)
            /\ t \notin Range(fmpCalls)
            /\ pc = "done" => t \in Table.columns

C10_Witness ==
    /\ pc = "done"
    /\ FMP_API_KEY
    /\ tickers = <<"A", "B">>
    /\ Len(yfService["A"].rows) = 1
    /\ PrimaryFailed("B")
    /\ fmpCalls = <<"B">>
    /\ "A" \in Table.columns

(***************************************************************************)
(* Properties of the adapters (SpecAdapters)                               *)
(***************************************************************************)
PriceOn(rows, day) == rows[CHOOSE k \in 1..Len(rows) : rows[k].date = day].price

\* the delivered prices in date order
ByDate(rows) ==
    LET idx == Ascending(Dates(rows))
    IN  [k \in 1..Len(idx) |-> PriceOn(rows, idx[k])]

Present(price) == price.kind = "num"

(***************************************************************************)
(* C5: the series an adapter produces from n date-ordered prices p has n   *)
(* entries; entry 1 is missing; a later entry is p[k]/p[k-1] - 1 when both *)
(* prices are present and p[k-1] is not zero, is missing when p[k-1] is    *)
(* zero or missing, and is never infinite.                                 *)
(***************************************************************************)
C5_ReturnRule ==
    pc \in {"yf_done", "fmp_done"} =>
        /\ produced # <<>>
        /\ LET s == produced[1]
               p == ByDate(delivered)
           IN  /\ Len(s) = Len(p)
               /\ s[1].ret = NaN
               /\ \A k \in 2..Len(p) :
                    /\ s[k].ret.kind \notin {"inf", "ninf"}
                    /\ (Present(p[k]) /\ Present(p[k - 1]) /\ p[k - 1].n # 0)
                          => s[k].ret = Rat(p[k].n - p[k - 1].n, p[k - 1].n)
                    /\ (~Present(p[k - 1]) \/ p[k - 1].n = 0) => s[k].ret = NaN

\* the series FMP's adapter produced is ordered by date and its returns are
\* taken over date-consecutive observations
SortedByDate ==
    pc = "fmp_done" =>
        /\ produced # <<>>
        /\ LET s == produced[1]
               p == ByDate(delivered)
           IN  /\ Len(s) = Len(delivered)
               /\ \A k \in 1..(Len(s) - 1) : s[k].date < s[k + 1].date
               /\ Dates(s) = Dates(delivered)
               /\ \A k \in 2..Len(s) :
                    (Present(p[k]) /\ Present(p[k - 1]) /\ p[k - 1].n # 0)
                        => s[k].ret = Rat(p[k].n - p[k - 1].n, p[k - 1].n)

(***************************************************************************)
(* C9: whatever order FMP delivers records of distinct dates in, the       *)
(* series produced has the delivered dates in strictly increasing order,   *)
(* each return between two present prices (the earlier not zero) is taken  *)
(* over date-consecutive observations, and delivering the same records in  *)
(* another order produces the same series.                                 *)
(***************************************************************************)
C9_OrderIndependent ==
    /\ []SortedByDate
    /\ [][(pc = "fmp_done" /\ pc' = "fmp_done") => produced' = produced]_vars

C9_Witness ==
    /\ pc = "fmp_done"
    /\ Len(delivered) = 3
    /\ delivered[1].date = 3 /\ delivered[2].date = 1 /\ delivered[3].date = 2
    /\ delivered[1].price = Num(100)
    /\ delivered[2].price = Num(100)
    /\ delivered[3].price = Num(110)
    /\ produced = << <<[date |-> 1, ret |-> NaN],
                       [date |-> 2, ret |-> Rat(1, 10)],
                       [date |-> 3, ret |-> Rat(-1, 11)]>> >>

(***************************************************************************)
(* C6 (SpecMerge): the table's index is the ascending union of the days of *)
(* all series, its columns are the tickers of the mapping, a cell on one   *)
(* of the ticker's own days holds the ticker's value for that day and any  *)
(* other cell holds the missing-value marker.                              *)
(***************************************************************************)
C6_OuterJoin ==
    pc = "done" =>
        LET days == UNION {Dates(stock_returns[t]) : t \in DOMAIN stock_returns}
        IN  /\ \A k \in 1..(Len(Table.index) - 1) : Table.index[k] < Table.index[k + 1]
            /\ Range(Table.index) = days
            /\ Table.columns = DOMAIN stock_returns
            /\ \A t \in DOMAIN stock_returns :
                 /\ DOMAIN Table.cell[t] = days
                 /\ \A k \in 1..Len(stock_returns[t]) :
                      Table.cell[t][stock_returns[t][k].date] = stock_returns[t][k].ret
                 /\ \A day \in days \ Dates(stock_returns[t]) : Table.cell[t][day] = NaN

C6_Witness ==
    /\ pc = "done"
    /\ DOMAIN stock_returns = {"A", "B"}
    /\ Dates(stock_returns["A"]) = {1, 3}
    /\ Dates(stock_returns["B"]) = {2}
    /\ stock_returns["B"][1].ret = Num(0)
    /\ Table.index = <<1, 2, 3>>
    /\ Table.cell["A"][2] = NaN
    /\ Table.cell["B"][2] = Num(0)

====
